---- MODULE Spec2Model ----
(***************************************************************************)
(* Model of the three scripts of the repository:                           *)
(*   cesare.js      Caesar cipher + chi-squared attack                      *)
(*   rsa_freq.js    per-letter RSA permutation + rank-matching attack       *)
(*   rsa_attack.js  per-letter RSA (27 symbols) + bigram hill climbing      *)
(* and of the modular arithmetic both RSA scripts rest on.                  *)
(*                                                                         *)
(* Strings are sequences of character codes ('A' = 65, ' ' = 32,           *)
(* '0' = 48, '?' = 63); BigInt values are integers (every value of the     *)
(* model stays far below 2^31).  One run executes one script: prog names   *)
(* it and pc is the position inside its main.                              *)
(***************************************************************************)
EXTENDS Integers, Sequences, FiniteSets, TLC

VARIABLES
  prog,      \* which script runs: "cesare", "rsa_freq", "rsa_attack", "arith"
  pc,        \* position in main
  files,     \* names of the result files written so far
  \* ---- cesare.js main
  norm,      \* normalizeText(raw)
  shift,     \* --shift
  srcFreq,   \* freqCount(norm)
  cipher,    \* caesarShift(norm, shift)
  cipFreq,   \* freqCount(cipher)
  best,      \* bestShiftByFrequency: the best candidate so far, then the result
  scanK,     \* bestShiftByFrequency: the loop counter k
  \* ---- rsa_freq.js main
  keyP, keyQ, keyE,        \* --p --q --e
  plainAZ,                 \* onlyAZ(raw)
  built,                   \* { n, map, uniq } of buildPlainToNumMap
  symMaps,                    \* { numToSym, plainToSym, symToNum } of buildSymbolMaps
  cipherAZ,
  decrypted,               \* the verification: d = modInvBig(e, phi) and decAZ
  rank,                    \* the attack: srcOrder, cipherOrder,
                           \* mapCipherToPlainByRank, guessAZ, srcF, cifF, gueF
  \* ---- rsa_attack.js main
  plaintext,               \* normalizeText(input)
  rsa,                     \* makeSmallRSA(101n, 113n, 17n)
  cipherNums, plainCounts,
  mappingFreq,             \* the mapping, which hillClimb changes in place
  initial,                 \* decodedFreq, acc1
  bigramModel, beforeScore,
  syms, bestScore, it,     \* hillClimb: the symbols, the current score, the loop counter
  drawI, drawJ,            \* hillClimb: the indices i and j drawn in the last pass
  final,                   \* decodedHill, acc2, decryptedWithKey
  \* ---- the arithmetic applied on its own
  argA, argB, argP, argQ,  \* the arguments
  res,                     \* the value returned
  \* ---- modPowBig / modPow applied on their own
  powBase, powExp, powMod, \* the arguments base, exp, mod
  loopB, loopE, loopR,     \* the loop: the running base, exponent and result
  powRes                   \* the value returned

csVars == <<norm, shift, srcFreq, cipher, cipFreq, best, scanK>>
rfVars == <<keyP, keyQ, keyE, plainAZ, built, symMaps, cipherAZ, decrypted, rank>>
\* what an action of one script leaves alone: the state of the other scripts
atVars == <<plaintext, rsa, cipherNums, plainCounts, mappingFreq, initial,
            bigramModel, beforeScore, syms, bestScore, it, drawI, drawJ, final>>
arVars == <<argA, argB, argP, argQ, res>>
pwVars == <<powBase, powExp, powMod, loopB, loopE, loopR, powRes>>
csRest == <<rfVars, atVars, arVars, pwVars>>
rfRest == <<csVars, atVars, arVars, pwVars>>
atRest == <<csVars, rfVars, arVars, pwVars>>
arRest == <<csVars, rfVars, atVars, pwVars>>
pwRest == <<csVars, rfVars, atVars, arVars>>
vars == <<prog, pc, files, csVars, rfVars, atVars, arVars, pwVars>>

None == <<>>

\* the state of a script that is not the one running
CsIdle ==
  /\ norm = None /\ shift = 0 /\ srcFreq = None /\ cipher = None
  /\ cipFreq = None /\ best = None /\ scanK = 0

RfIdle ==
  /\ keyP = 0 /\ keyQ = 0 /\ keyE = 0 /\ plainAZ = None /\ built = None
  /\ symMaps = None /\ cipherAZ = None /\ decrypted = None /\ rank = None

AtIdle ==
  /\ plaintext = None /\ rsa = None /\ cipherNums = None /\ plainCounts = None
  /\ mappingFreq = None /\ initial = None /\ bigramModel = None
  /\ beforeScore = None /\ syms = None /\ bestScore = None /\ it = 0 /\ final = None
  /\ drawI = None /\ drawJ = None

ArIdle == argA = 0 /\ argB = 0 /\ argP = 0 /\ argQ = 0 /\ res = None

PwIdle ==
  /\ powBase = 0 /\ powExp = 0 /\ powMod = 0
  /\ loopB = 0 /\ loopE = 0 /\ loopR = 0 /\ powRes = None

(***************************************************************************)
(* Bounds of the model.                                                    *)
(***************************************************************************)
MaxLenCaesar == 2
CaesarLetters == {65, 69, 74}            \* letters the bounded texts use: A E J

RECURSIVE StringsUpTo(_, _)
StringsUpTo(S, n) ==
  IF n = 0 THEN {<<>>}
  ELSE LET shorter == StringsUpTo(S, n - 1)
       IN  shorter \cup {Append(s, c) : s \in {x \in shorter : Len(x) = n - 1}, c \in S}

\* "ATTACKATDAWN", the end-to-end scenario of the specification
ATTACKATDAWN == <<65, 84, 84, 65, 67, 75, 65, 84, 68, 65, 87, 78>>
DWWDFNDWGDZQ == <<68, 87, 87, 68, 70, 78, 68, 87, 71, 68, 90, 81>>

CaesarTexts == StringsUpTo(CaesarLetters, MaxLenCaesar) \cup {ATTACKATDAWN}

(***************************************************************************)
(* JavaScript arithmetic: BigInt / and % truncate toward zero.             *)
(***************************************************************************)
JsDiv(a, b) ==
  IF (a >= 0) = (b > 0) THEN (IF a >= 0 THEN a ELSE -a) \div (IF b > 0 THEN b ELSE -b)
  ELSE -((IF a >= 0 THEN a ELSE -a) \div (IF b > 0 THEN b ELSE -b))

JsRem(a, b) == a - b * JsDiv(a, b)

RECURSIVE SumOver(_, _)
SumOver(f, S) ==
  IF S = {} THEN 0
  ELSE LET x == CHOOSE y \in S : TRUE IN f[x] + SumOver(f, S \ {x})

\* undefined (what Map.prototype.get and a missing property give): no character
\* code, count or residue is negative
Undefined == -1

\* The array with the elements f[1], f[2], ...: every element is computed once.
Arr(f) == f \o <<>>

\* The elements of seq at the indices idxs, in order.
KeepIndices(seq, idxs) ==
  LET s   == Arr(seq)
      upto == Arr([i \in 1..Len(s) |-> Cardinality({j \in idxs : j <= i})])
  IN  Arr([r \in 1..Cardinality(idxs) |-> s[CHOOSE i \in idxs : upto[i] = r]])

\* new Set(seq) / the keys of a Map filled in this order: first occurrences.
Dedupe(seq) ==
  LET s == Arr(seq)
  IN  KeepIndices(s, {i \in 1..Len(s) : \A j \in 1..(i - 1) : s[j] # s[i]})

\* Array.prototype.sort, which is stable: equal elements keep their order.
\* cmp[i][j] is the value of the comparator on (seq[i], seq[j]); negative
\* puts seq[i] first.
StableSort(seq, cmp) ==
  LET s    == Arr(seq)
      pos  == Arr([i \in 1..Len(s) |->
                Cardinality({j \in 1..Len(s) :
                    j # i /\ (cmp[j][i] < 0 \/ (cmp[j][i] = 0 /\ j < i))})])
  IN  Arr([r \in 1..Len(s) |-> s[CHOOSE i \in 1..Len(s) : pos[i] = r - 1]])

\* A Map / plain object: the sequence of its <<key, value>> entries in
\* insertion order.  MapOfSets is the map after set(key, value) for every
\* entry of seq in order, starting from an empty map.
MapOfSets(seq) ==
  LET s  == Arr(seq)
      ks == Dedupe([i \in 1..Len(s) |-> s[i][1]])
      last(key) == CHOOSE i \in 1..Len(s) :
                     s[i][1] = key /\ \A j \in (i + 1)..Len(s) : s[j][1] # key
  IN  Arr([r \in 1..Len(ks) |-> <<ks[r], s[last(ks[r])][2]>>])

MapHas(m, key) == \E i \in 1..Len(m) : m[i][1] = key
MapGet(m, key) ==
  IF MapHas(m, key) THEN m[CHOOSE i \in 1..Len(m) : m[i][1] = key][2] ELSE Undefined
MapSet(m, key, v) ==
  IF MapHas(m, key)
  THEN Arr([i \in 1..Len(m) |-> IF m[i][1] = key THEN <<key, v>> ELSE m[i]])
  ELSE Append(m, <<key, v>>)
MapKeys(m) == Arr([i \in 1..Len(m) |-> m[i][1]])
MapValues(m) == Arr([i \in 1..Len(m) |-> m[i][2]])

\* BigInt.prototype.toString and BigInt(string), decimal, for values >= 0
RECURSIVE ToStr(_)
ToStr(v) == IF v < 10 THEN <<48 + v>> ELSE Append(ToStr(v \div 10), 48 + (v % 10))
RECURSIVE ToBigInt(_)
ToBigInt(str) ==
  IF Len(str) = 0 THEN 0
  ELSE 10 * ToBigInt(SubSeq(str, 1, Len(str) - 1)) + (str[Len(str)] - 48)

(***************************************************************************)
(* cesare.js                                                               *)
(***************************************************************************)
CharA == 65
\* 'ABCDEFGHIJKLMNOPQRSTUVWXYZ'
letters == [i \in 1..26 |-> CharA + i - 1]
LetterSet == {letters[i] : i \in 1..26}

CountIn(t, ch) == Cardinality({i \in 1..Len(t) : t[i] = ch})

\* freqCount with n = t.length, without the || 1
freqCountNoGuard(t) ==
  LET counts == [L \in LetterSet |-> CountIn(t, L)]
      n      == Len(t)
  IN  [counts |-> counts,
       perc   |-> [L \in LetterSet |-> [num |-> counts[L] * 100, den |-> n]],
       n      |-> n]

\* freqCount: counts per letter, n = t.length || 1, perc[L] = counts[L]*100/n.
\* A percentage is the exact fraction num/den.
freqCount(t) ==
  LET counts == [L \in LetterSet |-> CountIn(t, L)]
      n      == IF Len(t) = 0 THEN 1 ELSE Len(t)
  IN  [counts |-> counts,
       perc   |-> [L \in LetterSet |-> [num |-> counts[L] * 100, den |-> n]],
       n      |-> n]

\* caesarShift without the wrap-around (% 26)
caesarShiftNoWrap(t, k) ==
  Arr([i \in 1..Len(t) |-> IF t[i] \in LetterSet THEN t[i] + k ELSE t[i]])

\* caesarShift: every [A-Z] character is replaced, anything else is kept.
\* k >= 0 here (the documented range of --shift is 0..25), where the JavaScript
\* remainder and the mathematical one agree.
caesarShift(t, k) ==
  Arr([i \in 1..Len(t) |->
         IF t[i] \in LetterSet THEN JsRem(t[i] - CharA + k, 26) + CharA ELSE t[i]])

\* ITALIAN_FREQ, in hundredths of a percent (11.74 is 1174), indexed A..Z
ITALIAN_FREQ_TABLE ==
  <<1174, 92, 450, 373, 1179, 95, 164, 154, 1014,
    0, 0, 651, 251, 688, 983, 305, 51, 637,
    498, 562, 301, 210, 0, 0, 0, 118>>
ITALIAN_FREQ == [L \in LetterSet |-> ITALIAN_FREQ_TABLE[L - CharA + 1]]

\* A chi-squared value.  For observed percentages num/den (one den for the text)
\* the value is carried exactly in scale, in units of 1/(100 * den^2), as the
\* two-limb number hi * ChiBase + lo; Infinity is the record with inf = TRUE.
\* Each term is rounded down to that unit (the source rounds to a double).
ChiBase == 100000000
Infinity == [inf |-> TRUE, hi |-> 0, lo |-> 0]

\* One term ((observed - expected) ** 2) / Math.max(expected, eps), with
\* expected = E/100 and eps = 1e-6:
\*   E > 0:  (100 num - E den)^2 / E           units of 1/(100 den^2)
\*   E = 0:  (num/den)^2 * 10^6 = num^2 * 10^8 units of 1/(100 den^2)
ChiTermLo(obs, E) ==
  IF E > 0 THEN ((100 * obs.num - E * obs.den) * (100 * obs.num - E * obs.den)) \div E
  ELSE 0
ChiTermHi(obs, E) == IF E > 0 THEN 0 ELSE obs.num * obs.num

chiSquared(obsPerc) ==
  LET lo == SumOver([L \in LetterSet |-> ChiTermLo(obsPerc[L], ITALIAN_FREQ[L])], LetterSet)
      hi == SumOver([L \in LetterSet |-> ChiTermHi(obsPerc[L], ITALIAN_FREQ[L])], LetterSet)
  IN  [inf |-> FALSE, hi |-> hi + (lo \div ChiBase), lo |-> lo % ChiBase]

\* chi <= best.chi in place of chi < best.chi
ChiLessOrEqual(a, b) ==
  IF a.inf THEN b.inf
  ELSE IF b.inf THEN TRUE
  ELSE a.hi < b.hi \/ (a.hi = b.hi /\ a.lo <= b.lo)

\* chi < best.chi
ChiLess(a, b) ==
  IF a.inf THEN FALSE
  ELSE IF b.inf THEN TRUE
  ELSE a.hi < b.hi \/ (a.hi = b.hi /\ a.lo < b.lo)

\* The k-th pass of the loop of bestShiftByFrequency.
ScanStep(ciph, k, bst) ==
  LET dec == caesarShift(ciph, (26 - k) % 26)
      chi == chiSquared(freqCount(dec).perc)
  IN  IF ChiLess(chi, bst.chi)
      THEN [shift |-> (26 - k) % 26, chi |-> chi, plain |-> dec]
      ELSE bst

\* let best = { shift: 0, chi: Infinity, plain: cipher }
ScanStart(ciph) == [shift |-> 0, chi |-> Infinity, plain |-> ciph]

(***************************************************************************)
(* cesare.js main: normalise, count, encrypt, count, attack, write.        *)
(***************************************************************************)
CesareFiles ==
  {"source_normalized.txt", "ciphertext.txt", "decrypted.txt",
   "source_freq.csv", "cipher_freq.csv", "report.md"}

CsInit ==
  /\ prog = "cesare"
  /\ pc = "freq_source"
  /\ files = {}
  /\ norm \in CaesarTexts
  /\ shift \in 0..25
  /\ srcFreq = None /\ cipher = None /\ cipFreq = None /\ best = None /\ scanK = 0
  /\ RfIdle /\ AtIdle /\ ArIdle /\ PwIdle

CsFreqSource ==
  /\ prog = "cesare" /\ pc = "freq_source"
  /\ srcFreq' = freqCount(norm)
  /\ pc' = "encrypt"
  /\ UNCHANGED <<prog, files, norm, shift, cipher, cipFreq, best, scanK, csRest>>

CsEncrypt ==
  /\ prog = "cesare" /\ pc = "encrypt"
  /\ cipher' = caesarShift(norm, shift)
  /\ pc' = "freq_cipher"
  /\ UNCHANGED <<prog, files, norm, shift, srcFreq, cipFreq, best, scanK, csRest>>

CsFreqCipher ==
  /\ prog = "cesare" /\ pc = "freq_cipher"
  /\ cipFreq' = freqCount(cipher)
  /\ pc' = "attack"
  /\ UNCHANGED <<prog, files, norm, shift, srcFreq, cipher, best, scanK, csRest>>

\* bestShiftByFrequency(cipher): entry, one action per pass of the loop
\* for (k = 0; k < 26; k++), and the return.
CsAttack ==
  /\ prog = "cesare" /\ pc = "attack"
  /\ best' = ScanStart(cipher)
  /\ scanK' = 0
  /\ pc' = "scan"
  /\ UNCHANGED <<prog, files, norm, shift, srcFreq, cipher, cipFreq, csRest>>

CsScan ==
  /\ prog = "cesare" /\ pc = "scan" /\ scanK < 26
  /\ best' = ScanStep(cipher, scanK, best)
  /\ scanK' = scanK + 1
  /\ UNCHANGED <<prog, pc, files, norm, shift, srcFreq, cipher, cipFreq, csRest>>

CsScanReturn ==
  /\ prog = "cesare" /\ pc = "scan" /\ scanK >= 26
  /\ pc' = "write"
  /\ UNCHANGED <<prog, files, csVars, csRest>>

CsWrite ==
  /\ prog = "cesare" /\ pc = "write"
  /\ files' = files \cup CesareFiles
  /\ pc' = "done"
  /\ UNCHANGED <<prog, csVars, csRest>>

CsNext ==
  \/ CsFreqSource \/ CsEncrypt \/ CsFreqCipher
  \/ CsAttack \/ CsScan \/ CsScanReturn \/ CsWrite

(***************************************************************************)
(* rsa_freq.js: frequencies, modular arithmetic, the letter permutation.   *)
(***************************************************************************)
\* countFreqAZ: f[i] for i in 0..25 counts the characters with code 65 + i
countFreqAZ(str) ==
  [i \in 0..25 |-> Cardinality({j \in 1..Len(str) :
                     str[j] - 65 = i /\ str[j] - 65 >= 0 /\ str[j] - 65 < 26})]

\* the comparator (a, b) => (f[b] - f[a]) || (a - b)
OrderCmp(f, a, b) == IF f[b] - f[a] # 0 THEN f[b] - f[a] ELSE a - b

\* orderByFreq: letters by frequency (descending), alphabetical on ties
orderByFreq(textAZ) ==
  LET f   == countFreqAZ(textAZ)
      idx == StableSort([i \in 1..26 |-> i - 1],
                        [a \in 1..26 |-> [b \in 1..26 |-> OrderCmp(f, a - 1, b - 1)]])
  IN  Arr([i \in 1..26 |-> 65 + idx[i]])

\* applySubst: map.get(ch) || '?'
applySubst(textAZ, m) ==
  Arr([i \in 1..Len(textAZ) |->
         IF MapGet(m, textAZ[i]) = Undefined THEN 63 ELSE MapGet(m, textAZ[i])])

RECURSIVE egcdBig(_, _)
egcdBig(a, b) ==
  IF b = 0 THEN [g |-> a, x |-> 1, y |-> 0]
  ELSE LET r == egcdBig(b, JsRem(a, b))
       IN  [g |-> r.g, x |-> r.y, y |-> r.x - JsDiv(a, b) * r.y]

\* modInvBig returning x % phi without the "+ phi) % phi" normalisation
modInvBigNoNormalize(ee, ph) ==
  LET r == egcdBig(ee, ph)
  IN  IF r.g # 1 THEN [ok |-> FALSE, value |-> 0]
      ELSE [ok |-> TRUE, value |-> JsRem(r.x, ph)]

\* modInvBig: throws 'e e phi non coprimi' when g !== 1n
modInvBig(ee, ph) ==
  LET r == egcdBig(ee, ph)
  IN  IF r.g # 1 THEN [ok |-> FALSE, value |-> 0]
      ELSE [ok |-> TRUE, value |-> JsRem(JsRem(r.x, ph) + ph, ph)]

\* the loop of modPowBig with the squaring done before the multiplication
RECURSIVE PowLoopBigSquareFirst(_, _, _, _)
PowLoopBigSquareFirst(b, ee, m, r) ==
  IF ee > 0
  THEN PowLoopBigSquareFirst(JsRem(b * b, m), ee \div 2, m,
                             IF ee % 2 = 1 THEN JsRem(r * JsRem(b * b, m), m) ELSE r)
  ELSE r

\* the loop of modPowBig: while (e > 0n) { if (e & 1n) r = r*b % m; b = b*b % m; e >>= 1n }
RECURSIVE PowLoopBig(_, _, _, _)
PowLoopBig(b, ee, m, r) ==
  IF ee > 0
  THEN PowLoopBig(JsRem(b * b, m), ee \div 2, m,
                  IF ee % 2 = 1 THEN JsRem(r * b, m) ELSE r)
  ELSE r

modPowBig(base, exp, mod) == PowLoopBig(JsRem(base, mod), exp, mod, 1)

\* buildPlainToNumMap: 'A'..'Z' -> m^e mod n; throws unless the 26 residues
\* are distinct; uniq is sorted ascending.
NumCmp(a, b) == IF a < b THEN -1 ELSE IF a > b THEN 1 ELSE 0

\* buildPlainToNumMap without uniq.sort(...)
buildPlainToNumMapNoSort(pp, qq, ee) ==
  LET nn   == pp * qq
      map  == MapOfSets([i \in 1..26 |-> <<65 + (i - 1), modPowBig(i - 1, ee, nn)>>])
      strs == Dedupe([i \in 1..Len(map) |-> ToStr(map[i][2])])
      uniq == Arr([i \in 1..Len(strs) |-> ToBigInt(strs[i])])
  IN  [ok |-> Len(uniq) = 26, n |-> nn, map |-> map, uniq |-> uniq]

buildPlainToNumMap(pp, qq, ee) ==
  LET nn   == pp * qq
      map  == MapOfSets([i \in 1..26 |-> <<65 + (i - 1), modPowBig(i - 1, ee, nn)>>])
      strs == Dedupe([i \in 1..Len(map) |-> ToStr(map[i][2])])
      uniq == Arr([i \in 1..Len(strs) |-> ToBigInt(strs[i])])
  IN  IF Len(uniq) # 26
      THEN [ok |-> FALSE, n |-> nn, map |-> map, uniq |-> uniq]
      ELSE [ok |-> TRUE, n |-> nn, map |-> map, uniq |->
              StableSort(uniq, [a \in 1..Len(uniq) |-> [b \in 1..Len(uniq) |->
                                  NumCmp(uniq[a], uniq[b])]])]

\* buildSymbolMaps: residue string -> symbol, letter -> symbol, symbol -> residue
buildSymbolMaps(mapPlainToNum, uniq) ==
  LET numToSym   == MapOfSets([i \in 1..26 |-> <<ToStr(uniq[i]), 65 + (i - 1)>>])
      plainToSym == MapOfSets([i \in 1..Len(mapPlainToNum) |->
                       <<mapPlainToNum[i][1],
                         MapGet(numToSym, ToStr(mapPlainToNum[i][2]))>>])
      symToNum   == MapOfSets([i \in 1..Len(numToSym) |->
                       <<numToSym[i][2], ToBigInt(numToSym[i][1])>>])
  IN  [numToSym |-> numToSym, plainToSym |-> plainToSym, symToNum |-> symToNum]

(***************************************************************************)
(* rsa_freq.js main                                                        *)
(***************************************************************************)
MaxLenFreq == 2
MaxE == 7
FreqLetters == {65, 66}                   \* A B
KeyP == {9, 13, 29}
KeyQ == {5, 11, 23, 29}
HELLO == <<72, 69, 76, 76, 79>>
FreqTexts == StringsUpTo(FreqLetters, MaxLenFreq) \cup {HELLO}

RsaFreqFiles ==
  {"normalized_plain.txt", "ciphertext.txt", "decrypted.txt",
   "attack_guess_from_source.txt", "mapping.txt", "source_freq.csv",
   "cipher_freq.csv", "guess_freq.csv", "report.txt"}

RfInit ==
  /\ prog = "rsa_freq"
  /\ pc = "check_empty"
  /\ files = {}
  /\ keyP \in KeyP /\ keyQ \in KeyQ /\ keyE \in 1..MaxE
  /\ plainAZ \in FreqTexts
  /\ built = None /\ symMaps = None /\ cipherAZ = None /\ decrypted = None /\ rank = None
  /\ CsIdle /\ AtIdle /\ ArIdle /\ PwIdle

\* if (!plainAZ.length) throw ...; the catch prints and exits with status 1
RfCheckEmpty ==
  /\ prog = "rsa_freq" /\ pc = "check_empty"
  /\ pc' = IF Len(plainAZ) = 0 THEN "error" ELSE "build"
  /\ UNCHANGED <<prog, files, rfVars, rfRest>>

\* buildPlainToNumMap (a throw ends the run), then buildSymbolMaps
RfBuild ==
  /\ prog = "rsa_freq" /\ pc = "build"
  /\ built' = buildPlainToNumMap(keyP, keyQ, keyE)
  /\ IF built'.ok
     THEN /\ symMaps' = buildSymbolMaps(built'.map, built'.uniq)
          /\ pc' = "encrypt"
     ELSE /\ pc' = "error"
          /\ UNCHANGED symMaps
  /\ UNCHANGED <<prog, files, keyP, keyQ, keyE, plainAZ, cipherAZ, decrypted, rank, rfRest>>

\* cipherAZ = [...plainAZ].map(ch => plainToSym.get(ch)).join('')
RfEncrypt ==
  /\ prog = "rsa_freq" /\ pc = "encrypt"
  /\ cipherAZ' = Arr([i \in 1..Len(plainAZ) |-> MapGet(symMaps.plainToSym, plainAZ[i])])
  /\ pc' = "decrypt"
  /\ UNCHANGED <<prog, files, keyP, keyQ, keyE, plainAZ, built, symMaps, decrypted, rank, rfRest>>

\* main, the verification: phi, d = modInvBig(e, phi), encNums, decAZ
DecryptAll(pp, qq, ee, nn, symToNum, ciph) ==
  LET phi     == (pp - 1) * (qq - 1)
      inv     == modInvBig(ee, phi)
      encNums == Arr([i \in 1..Len(ciph) |-> MapGet(symToNum, ciph[i])])
  IN  IF inv.ok
      THEN [ok |-> TRUE, d |-> inv.value,
            decAZ |-> Arr([i \in 1..Len(encNums) |->
                             65 + modPowBig(encNums[i], inv.value, nn)])]
      ELSE [ok |-> FALSE, d |-> 0, decAZ |-> <<>>]

RfDecrypt ==
  /\ prog = "rsa_freq" /\ pc = "decrypt"
  /\ decrypted' = DecryptAll(keyP, keyQ, keyE, built.n, symMaps.symToNum, cipherAZ)
  /\ pc' = IF decrypted'.ok THEN "attack" ELSE "error"
  /\ UNCHANGED <<prog, files, keyP, keyQ, keyE, plainAZ, built, symMaps, cipherAZ,
                 rank, rfRest>>

\* main, the attack: the cipher symbol of rank i is read as the source letter
\* of rank i; then the statistics
RankMatch(plain, ciph) ==
  LET so == orderByFreq(plain)
      co == orderByFreq(ciph)
      mp == MapOfSets([i \in 1..26 |-> <<co[i], so[i]>>])
      gs == applySubst(ciph, mp)
  IN  [srcOrder |-> so, cipherOrder |-> co, mapCipherToPlainByRank |-> mp,
       guessAZ |-> gs,
       srcF |-> countFreqAZ(plain), cifF |-> countFreqAZ(ciph), gueF |-> countFreqAZ(gs)]

RfAttack ==
  /\ prog = "rsa_freq" /\ pc = "attack"
  /\ rank' = RankMatch(plainAZ, cipherAZ)
  /\ pc' = "write"
  /\ UNCHANGED <<prog, files, keyP, keyQ, keyE, plainAZ, built, symMaps, cipherAZ,
                 decrypted, rfRest>>

RfWrite ==
  /\ prog = "rsa_freq" /\ pc = "write"
  /\ files' = files \cup RsaFreqFiles
  /\ pc' = "done"
  /\ UNCHANGED <<prog, rfVars, rfRest>>

RfNext ==
  \/ RfCheckEmpty \/ RfBuild \/ RfEncrypt \/ RfDecrypt \/ RfAttack \/ RfWrite

(***************************************************************************)
(* rsa_attack.js: arithmetic, alphabet, per-letter RSA.                    *)
(***************************************************************************)
\* egcd returns [x, y, g]
RECURSIVE egcd(_, _)
egcd(a, b) ==
  IF b = 0 THEN <<1, 0, a>>
  ELSE LET r == egcd(b, JsRem(a, b))
       IN  <<r[2], r[1] - JsDiv(a, b) * r[2], r[3]>>

\* modInv without the g !== 1n check
modInvNoCheck(a, m) ==
  LET r == egcd(a, m)
  IN  [ok |-> TRUE, value |-> JsRem(JsRem(r[1], m) + m, m)]

\* modInv: throws "No modular inverse" when g !== 1n
modInv(a, m) ==
  LET r == egcd(a, m)
  IN  IF r[3] # 1 THEN [ok |-> FALSE, value |-> 0]
      ELSE [ok |-> TRUE, value |-> JsRem(JsRem(r[1], m) + m, m)]

RECURSIVE PowLoop(_, _, _, _)
PowLoop(base, exp, mod, result) ==
  IF exp > 0
  THEN PowLoop(JsRem(base * base, mod), exp \div 2, mod,
               IF exp % 2 = 1 THEN JsRem(result * base, mod) ELSE result)
  ELSE result

modPow(base, exp, mod) == PowLoop(JsRem(JsRem(base, mod) + mod, mod), exp, mod, 1)

\* gcd: a = |a|, b = |b|; while (b) { t = a % b; a = b; b = t }
RECURSIVE GcdLoop(_, _)
GcdLoop(a, b) == IF b # 0 THEN GcdLoop(b, JsRem(a, b)) ELSE a
gcd(a, b) == GcdLoop(IF a < 0 THEN -a ELSE a, IF b < 0 THEN -b ELSE b)

\* ALPHABET: 'A'..'Z' and the space
ALPHABET == [i \in 1..27 |-> IF i <= 26 THEN 65 + (i - 1) ELSE 32]
AlphabetSet == {ALPHABET[i] : i \in 1..27}
CHAR2INT(ch) ==
  IF ch \in AlphabetSet THEN (CHOOSE i \in 1..27 : ALPHABET[i] = ch) - 1 ELSE Undefined
INT2CHAR(m) == IF m >= 0 /\ m < 27 THEN ALPHABET[m + 1] ELSE Undefined

\* null, pushed by encryptTextRSA for a character outside the alphabet
Null == -2

\* makeSmallRSA: throws "e must be coprime with phi" (ok = FALSE)
makeSmallRSA(pp, qq, ee) ==
  LET NN  == pp * qq
      phi == (pp - 1) * (qq - 1)
  IN  IF gcd(ee, phi) # 1
      THEN [ok |-> FALSE, p |-> pp, q |-> qq, N |-> NN, e |-> ee, d |-> 0, phi |-> phi]
      ELSE LET inv == modInv(ee, phi)
           IN  [ok |-> inv.ok, p |-> pp, q |-> qq, N |-> NN, e |-> ee,
                d |-> inv.value, phi |-> phi]

encryptTextRSA(text, pub) ==
  Arr([i \in 1..Len(text) |->
         IF CHAR2INT(text[i]) = Undefined THEN Null
         ELSE modPow(CHAR2INT(text[i]), pub.e, pub.N)])

\* out.join(''): '?' for null, INT2CHAR[m] otherwise; join prints undefined as ''
decryptTextRSA(cipherArr, priv) ==
  LET out == Arr([i \in 1..Len(cipherArr) |->
                    IF cipherArr[i] = Null THEN 63
                    ELSE INT2CHAR(modPow(cipherArr[i], priv.d, priv.N))])
  IN  KeepIndices(out, {i \in 1..Len(out) : out[i] # Undefined})

\* countsFromArray: Map from x.toString() to the number of occurrences
countsFromArray(arr) ==
  LET a0   == Arr(arr)
      strs == Arr([i \in 1..Len(a0) |-> IF a0[i] = Null THEN <<>> ELSE ToStr(a0[i])])
      ks   == Dedupe(KeepIndices(strs, {i \in 1..Len(strs) : a0[i] # Null}))
  IN  Arr([r \in 1..Len(ks) |->
             <<ks[r], Cardinality({i \in 1..Len(strs) : a0[i] # Null /\ strs[i] = ks[r]})>>])

\* main / countsObjectFromString: { ch: count } in order of first occurrence
countsObjectFromString(str) ==
  LET inAlpha == KeepIndices(str, {i \in 1..Len(str) : CHAR2INT(str[i]) # Undefined})
      ks      == Dedupe(inAlpha)
  IN  Arr([r \in 1..Len(ks) |->
             <<ks[r], Cardinality({i \in 1..Len(inAlpha) : inAlpha[i] = ks[r]})>>])

\* the comparator (a, b) => b[1] - a[1]
ByCountDesc(a, b) == b[2] - a[2]

ExpectedSymbols(rsaPub) == Arr([i \in 1..27 |-> modPow(i - 1, rsaPub.e, rsaPub.N)])

\* freqMapping: the cipher symbols by descending count against the plaintext
\* letters by descending count, the other letters of ALPHABET appended
freqMapping(cNums, pCounts, rsaPub) ==
  LET expectedCipherSymbols == ExpectedSymbols(rsaPub)
      cCounts == countsFromArray(cNums)
      pairs == Arr([i \in 1..27 |->
                  <<expectedCipherSymbols[i],
                    IF MapGet(cCounts, ToStr(expectedCipherSymbols[i])) = Undefined
                    THEN 0 ELSE MapGet(cCounts, ToStr(expectedCipherSymbols[i]))>>])
      arr == StableSort(pairs, [a \in 1..27 |-> [b \in 1..27 |->
                                  ByCountDesc(pairs[a], pairs[b])]])
      sorted == MapKeys(StableSort(pCounts,
                  [a \in 1..Len(pCounts) |-> [b \in 1..Len(pCounts) |->
                     ByCountDesc(pCounts[a], pCounts[b])]]))
      plainList == sorted \o KeepIndices(ALPHABET,
                     {i \in 1..27 : \A j \in 1..Len(sorted) : sorted[j] # ALPHABET[i]})
  IN  MapOfSets([i \in 1..27 |-> <<ToStr(arr[i][1]), plainList[i]>>])

applyMappingToCipher(cNums, mapping) ==
  Arr([i \in 1..Len(cNums) |->
         IF cNums[i] = Null THEN 63
         ELSE IF MapGet(mapping, ToStr(cNums[i])) = Undefined THEN 63
         ELSE MapGet(mapping, ToStr(cNums[i]))])

\* buildBigramModelFromText.  model[a + b] = Math.log(cnt / (total + V * V)) with
\* cnt = (bigramCounts[a + b] || 0) + 1: the model is kept as bigramCounts and
\* total, from which BigramCnt and BigramDen give cnt and total + V * V.
buildBigramModelFromText(text) ==
  LET idxs == {i \in 1..(Len(text) - 1) :
                 CHAR2INT(text[i]) # Undefined /\ CHAR2INT(text[i + 1]) # Undefined}
      keys == KeepIndices([i \in 1..(Len(text) - 1) |-> <<text[i], text[i + 1]>>], idxs)
      ks   == Dedupe(keys)
  IN  [bigramCounts |->
         Arr([r \in 1..Len(ks) |->
                <<ks[r], Cardinality({i \in 1..Len(keys) : keys[i] = ks[r]})>>]),
       total |-> Cardinality(idxs)]

BigramCnt(model, a, b) ==
  (IF MapGet(model.bigramCounts, <<a, b>>) = Undefined THEN 0
   ELSE MapGet(model.bigramCounts, <<a, b>>)) + 1
BigramDen(model) == model.total + 27 * 27

\* scoreMapping.  The score, a sum of logarithms log(cnt_i / den), is kept as
\* the exact pair (num, pairs): num the product of the cnt_i and pairs their
\* number, so that the score is log(num / den^pairs).
RECURSIVE ProdOver(_, _)
ProdOver(f, S) ==
  IF S = {} THEN 1
  ELSE LET x == CHOOSE y \in S : TRUE IN f[x] * ProdOver(f, S \ {x})

scoreMapping(mapping, cNums, bModel) ==
  LET decoded == applyMappingToCipher(cNums, mapping)
      idxs == {i \in 1..(Len(decoded) - 1) :
                 CHAR2INT(decoded[i]) # Undefined /\ CHAR2INT(decoded[i + 1]) # Undefined}
  IN  [num |-> ProdOver([i \in idxs |-> BigramCnt(bModel, decoded[i], decoded[i + 1])],
                        idxs),
       pairs |-> Cardinality(idxs)]

RECURSIVE Pow(_, _)
Pow(b, x) == IF x = 0 THEN 1 ELSE b * Pow(b, x - 1)

\* newScore < curScore in place of newScore > curScore
ScoreLess(s1, s2, den) ==
  LET m == IF s1.pairs < s2.pairs THEN s1.pairs ELSE s2.pairs
  IN  s1.num * Pow(den, s2.pairs - m) < s2.num * Pow(den, s1.pairs - m)

\* newScore > curScore, for scores under one model with denominator den
ScoreGreater(s1, s2, den) ==
  LET m == IF s1.pairs < s2.pairs THEN s1.pairs ELSE s2.pairs
  IN  s1.num * Pow(den, s2.pairs - m) > s2.num * Pow(den, s1.pairs - m)

\* hillClimb, the seed: every expected symbol without a letter gets
\* remainingLetters.pop(), or ALPHABET[0] once none is left
\* hillClimb: expected, the cipher symbols as strings (syms is a copy of it)
ExpectedStrings(rsaPub) ==
  LET ex == ExpectedSymbols(rsaPub) IN Arr([i \in 1..27 |-> ToStr(ex[i])])

PadMapping(mapping, rsaPub) ==
  LET expected == ExpectedStrings(rsaPub)
      assigned == {mapping[i][2] : i \in 1..Len(mapping)}
      remainingLetters == KeepIndices(ALPHABET, {i \in 1..27 : ALPHABET[i] \notin assigned})
      missing == Dedupe(KeepIndices(expected,
                          {i \in 1..27 : ~MapHas(mapping, expected[i])}))
  IN  mapping \o Arr([r \in 1..Len(missing) |->
                        <<missing[r],
                          IF r <= Len(remainingLetters)
                          THEN remainingLetters[Len(remainingLetters) - r + 1]
                          ELSE ALPHABET[1]>>])

\* the pass with mapping.set(b, ma) left out of the swap
HillStepHalfSwap(mapping, curScore, cNums, bModel, symsArr, i, j) ==
  LET a  == symsArr[i + 1]
      b  == symsArr[j + 1]
      ma == MapGet(mapping, a)
      mb == MapGet(mapping, b)
      swapped  == MapSet(mapping, a, mb)
      newScore == scoreMapping(swapped, cNums, bModel)
  IN  IF ScoreGreater(newScore, curScore, BigramDen(bModel))
      THEN [mapping |-> swapped, bestScore |-> newScore]
      ELSE [mapping |-> MapSet(MapSet(swapped, a, ma), b, mb), bestScore |-> curScore]

\* the pass with the else branch (the revert) left out
HillStepNoRevert(mapping, curScore, cNums, bModel, symsArr, i, j) ==
  LET a  == symsArr[i + 1]
      b  == symsArr[j + 1]
      ma == MapGet(mapping, a)
      mb == MapGet(mapping, b)
      swapped  == MapSet(MapSet(mapping, a, mb), b, ma)
      newScore == scoreMapping(swapped, cNums, bModel)
  IN  IF ScoreGreater(newScore, curScore, BigramDen(bModel))
      THEN [mapping |-> swapped, bestScore |-> newScore]
      ELSE [mapping |-> swapped, bestScore |-> curScore]

\* hillClimb, one pass of the loop that drew i and j (i # j): the mapping and
\* curScore after it
HillStep(mapping, curScore, cNums, bModel, symsArr, i, j) ==
  LET a  == symsArr[i + 1]
      b  == symsArr[j + 1]
      ma == MapGet(mapping, a)
      mb == MapGet(mapping, b)
      swapped  == MapSet(MapSet(mapping, a, mb), b, ma)
      newScore == scoreMapping(swapped, cNums, bModel)
  IN  IF ScoreGreater(newScore, curScore, BigramDen(bModel))
      THEN [mapping |-> swapped, bestScore |-> newScore]
      ELSE [mapping |-> MapSet(MapSet(swapped, a, ma), b, mb), bestScore |-> curScore]

accuracy(decoded, plain) ==
  LET upto == IF Len(decoded) < Len(plain) THEN Len(decoded) ELSE Len(plain)
      idxs == {i \in 1..upto : CHAR2INT(plain[i]) # Undefined}
  IN  [tot |-> Cardinality(idxs),
       corr |-> Cardinality({i \in idxs : decoded[i] = plain[i]})]

(***************************************************************************)
(* rsa_attack.js main                                                      *)
(***************************************************************************)
MaxLenAttack == 3
HillIterations == 2                     \* the iteration budget (main passes 3000)
AttackLetters == {65, 66, 32}           \* A B and the space
DrawIdx == {0, 1, 2, 26}                \* the indices Math.random may select

\* what normalizeText returns: no space at either end, no two spaces in a row
IsNormalized(str) ==
  /\ Len(str) > 0 => (str[1] # 32 /\ str[Len(str)] # 32)
  /\ \A x \in 1..(Len(str) - 1) : ~(str[x] = 32 /\ str[x + 1] = 32)

AttackTexts == {str \in StringsUpTo(AttackLetters, MaxLenAttack) : IsNormalized(str)}

RsaAttackFiles ==
  {"attack_guess_from_source.txt", "cipher_freq.csv", "ciphertext.txt",
   "decrypted.txt", "guess_freq.csv", "mapping.txt", "source_freq.csv"}

AtInit ==
  /\ prog = "rsa_attack"
  /\ pc = "setup"
  /\ files = {}
  /\ plaintext \in AttackTexts
  /\ rsa = None /\ cipherNums = None /\ plainCounts = None /\ mappingFreq = None
  /\ initial = None /\ bigramModel = None /\ beforeScore = None
  /\ syms = None /\ bestScore = None /\ it = 0 /\ final = None
  /\ drawI = None /\ drawJ = None
  /\ CsIdle /\ RfIdle /\ ArIdle /\ PwIdle

\* makeSmallRSA(101n, 113n, 17n), encryptTextRSA, plainCounts
AtSetup ==
  /\ prog = "rsa_attack" /\ pc = "setup"
  /\ rsa' = makeSmallRSA(101, 113, 17)
  /\ IF rsa'.ok
     THEN /\ cipherNums' = encryptTextRSA(plaintext, rsa')
          /\ plainCounts' = countsObjectFromString(plaintext)
          /\ pc' = "freq"
     ELSE /\ pc' = "error"
          /\ UNCHANGED <<cipherNums, plainCounts>>
  /\ UNCHANGED <<prog, files, plaintext, mappingFreq, initial, bigramModel,
                 beforeScore, syms, bestScore, it, drawI, drawJ, final, atRest>>

\* mappingFreq, decodedFreq, acc1
InitialGuess(mapping, nums, plain) ==
  LET decodedFreq == applyMappingToCipher(nums, mapping)
  IN  [decodedFreq |-> decodedFreq, acc1 |-> accuracy(decodedFreq, plain)]

AtFreq ==
  /\ prog = "rsa_attack" /\ pc = "freq"
  /\ mappingFreq' = freqMapping(cipherNums, plainCounts, rsa)
  /\ initial' = InitialGuess(mappingFreq', cipherNums, plaintext)
  /\ pc' = "bigram"
  /\ UNCHANGED <<prog, files, plaintext, rsa, cipherNums, plainCounts, bigramModel,
                 beforeScore, syms, bestScore, it, drawI, drawJ, final, atRest>>

AtBigram ==
  /\ prog = "rsa_attack" /\ pc = "bigram"
  /\ bigramModel' = buildBigramModelFromText(plaintext)
  /\ beforeScore' = scoreMapping(mappingFreq, cipherNums, bigramModel')
  /\ pc' = "hill_seed"
  /\ UNCHANGED <<prog, files, plaintext, rsa, cipherNums, plainCounts, mappingFreq,
                 initial, syms, bestScore, it, drawI, drawJ, final, atRest>>

\* hillClimb up to the loop: the padding of the mapping and the first score
HcSeed ==
  /\ prog = "rsa_attack" /\ pc = "hill_seed"
  /\ mappingFreq' = PadMapping(mappingFreq, rsa)
  /\ bestScore' = scoreMapping(mappingFreq', cipherNums, bigramModel)
  /\ syms' = ExpectedStrings(rsa)
  /\ it' = 0
  /\ pc' = "hill_loop"
  /\ UNCHANGED <<prog, files, plaintext, rsa, cipherNums, plainCounts, initial,
                 bigramModel, beforeScore, drawI, drawJ, final, atRest>>

\* one pass of for (it = 0; it < iterations; it++): two draws, continue when
\* they are equal, else swap, score, keep or revert
HcIter ==
  /\ prog = "rsa_attack" /\ pc = "hill_loop" /\ it < HillIterations
  /\ \E i \in DrawIdx, j \in DrawIdx :
       /\ drawI' = i /\ drawJ' = j
       /\ IF i = j
          THEN UNCHANGED <<mappingFreq, bestScore>>
          ELSE LET r == HillStep(mappingFreq, bestScore, cipherNums, bigramModel, syms, i, j)
               IN  /\ mappingFreq' = r.mapping
                   /\ bestScore' = r.bestScore
  /\ it' = it + 1
  /\ UNCHANGED <<prog, pc, files, plaintext, rsa, cipherNums, plainCounts, initial,
                 bigramModel, beforeScore, syms, final, atRest>>

\* return bestScore
HcReturn ==
  /\ prog = "rsa_attack" /\ pc = "hill_loop" /\ it >= HillIterations
  /\ pc' = "write"
  /\ UNCHANGED <<prog, files, atVars, atRest>>

\* decodedHill, acc2, decryptedWithKey and the result files
FinalResult(mapping, nums, plain, key) ==
  LET decodedHill == applyMappingToCipher(nums, mapping)
  IN  [decodedHill |-> decodedHill, acc2 |-> accuracy(decodedHill, plain),
       decryptedWithKey |-> decryptTextRSA(nums, key)]

AtWrite ==
  /\ prog = "rsa_attack" /\ pc = "write"
  /\ final' = FinalResult(mappingFreq, cipherNums, plaintext, rsa)
  /\ files' = files \cup RsaAttackFiles
  /\ pc' = "done"
  /\ UNCHANGED <<prog, plaintext, rsa, cipherNums, plainCounts, mappingFreq, initial,
                 bigramModel, beforeScore, syms, bestScore, it,
                 drawI, drawJ, atRest>>

AtNext == AtSetup \/ AtFreq \/ AtBigram \/ HcSeed \/ HcIter \/ HcReturn \/ AtWrite

(***************************************************************************)
(* The modular arithmetic on its own: the functions applied to arguments   *)
(* drawn from bounded sets.                                                *)
(***************************************************************************)
MaxArg == 9
SmallPrimes == {2, 3, 5}

ArInit ==
  /\ prog = "arith"
  /\ pc = "call"
  /\ files = {}
  /\ argA \in 1..MaxArg /\ argB \in 1..MaxArg
  /\ argP \in SmallPrimes /\ argQ \in SmallPrimes
  /\ res = None
  /\ CsIdle /\ RfIdle /\ AtIdle /\ PwIdle

ArReturn(name, value) ==
  /\ prog = "arith" /\ pc = "call"
  /\ pc' = name
  /\ res' = value
  /\ UNCHANGED <<prog, files, argA, argB, argP, argQ, arRest>>

ArEgcdBig == ArReturn("egcdBig", egcdBig(argA, argB))
ArModInvBig == ArReturn("modInvBig", modInvBig(argA, argB))
ArEgcd == ArReturn("egcd", egcd(argA, argB))
ArModInv == ArReturn("modInv", modInv(argA, argB))
ArGcd == ArReturn("gcd", gcd(argA, argB))
ArMakeSmallRSA == ArReturn("makeSmallRSA", makeSmallRSA(argP, argQ, argA))

ArNext == ArEgcdBig \/ ArModInvBig \/ ArEgcd \/ ArModInv \/ ArGcd \/ ArMakeSmallRSA

(***************************************************************************)
(* modPowBig and modPow applied on their own, one loop pass at a time.     *)
(***************************************************************************)
MaxBase == 7
MaxExp == 6
MaxMod == 5

\* one pass of the while loop of modPowBig / modPow
PowPass(b, e, m, r) ==
  [r |-> IF e % 2 = 1 THEN JsRem(r * b, m) ELSE r,
   b |-> JsRem(b * b, m),
   e |-> e \div 2]

PwInit ==
  /\ prog = "pow"
  /\ pc = "call"
  /\ files = {}
  /\ powBase \in 0..MaxBase /\ powExp \in 0..MaxExp /\ powMod \in 2..MaxMod
  /\ loopB = 0 /\ loopE = 0 /\ loopR = 0 /\ powRes = None
  /\ CsIdle /\ RfIdle /\ AtIdle /\ ArIdle

\* modPowBig: b = base % mod, e = exp, r = 1n
PwEnterBig ==
  /\ prog = "pow" /\ pc = "call"
  /\ loopB' = JsRem(powBase, powMod)
  /\ loopE' = powExp
  /\ loopR' = 1
  /\ pc' = "modPowBig_loop"
  /\ UNCHANGED <<prog, files, powBase, powExp, powMod, powRes, pwRest>>

\* modPow: base = ((base % mod) + mod) % mod, result = 1n
PwEnter ==
  /\ prog = "pow" /\ pc = "call"
  /\ loopB' = JsRem(JsRem(powBase, powMod) + powMod, powMod)
  /\ loopE' = powExp
  /\ loopR' = 1
  /\ pc' = "modPow_loop"
  /\ UNCHANGED <<prog, files, powBase, powExp, powMod, powRes, pwRest>>

\* while (e > 0n) { ... }
PwPass ==
  /\ prog = "pow" /\ pc \in {"modPowBig_loop", "modPow_loop"}
  /\ loopE > 0
  /\ LET nxt == PowPass(loopB, loopE, powMod, loopR)
     IN  loopB' = nxt.b /\ loopE' = nxt.e /\ loopR' = nxt.r
  /\ UNCHANGED <<prog, pc, files, powBase, powExp, powMod, powRes, pwRest>>

\* return r
PwReturn ==
  /\ prog = "pow" /\ pc \in {"modPowBig_loop", "modPow_loop"}
  /\ ~(loopE > 0)
  /\ powRes' = loopR
  /\ pc' = IF pc = "modPowBig_loop" THEN "modPowBig" ELSE "modPow"
  /\ UNCHANGED <<prog, files, powBase, powExp, powMod, loopB, loopE, loopR, pwRest>>

PwNext == PwEnterBig \/ PwEnter \/ PwPass \/ PwReturn

(***************************************************************************)
(* Specifications: every script and the arithmetic (Spec), and one script  *)
(* at a time.                                                              *)
(***************************************************************************)
Init == CsInit \/ RfInit \/ AtInit \/ ArInit \/ PwInit
Next == CsNext \/ RfNext \/ AtNext \/ ArNext \/ PwNext
Spec == Init /\ [][Next]_vars

SpecCesare == CsInit /\ [][CsNext]_vars
SpecRsaFreq == RfInit /\ [][RfNext]_vars
SpecAttack == AtInit /\ [][AtNext]_vars

RsaInit == RfInit \/ AtInit \/ ArInit
RsaNext == RfNext \/ AtNext \/ ArNext
SpecRsa == RsaInit /\ [][RsaNext]_vars
SpecPow == PwInit /\ [][PwNext]_vars

(***************************************************************************)
(* Properties.                                                             *)
(***************************************************************************)
CsAttacked == prog = "cesare" /\ pc \in {"write", "done"}

\* the k-th candidate of the scan of bestShiftByFrequency, and its chi-squared
Candidate(ciph, kk) == caesarShift(ciph, (26 - kk) % 26)
CandidateChis(ciph) ==
  Arr([i \in 1..26 |-> chiSquared(freqCount(Candidate(ciph, i - 1)).perc)])
ChiBelow(a, b) == a.hi < b.hi \/ (a.hi = b.hi /\ a.lo < b.lo)

\* C3: for a (non-empty) A-Z plaintext t and a shift k in 0..25, if the
\* decoding that bestShiftByFrequency selects for caesarShift(t, k) is t
\* itself then the returned shift is k, the shift used to encrypt; and the
\* returned pair always satisfies caesarShift(plain, shift) = cipher.
C3_ReturnsEncryptionShift ==
  (CsAttacked /\ Len(norm) > 0) =>
    /\ best.plain = norm => best.shift = shift
    /\ caesarShift(best.plain, best.shift) = cipher

FirstMinimum(chis, ciph, bst) ==
  \E kk \in 0..25 :
    /\ bst.plain = Candidate(ciph, kk)
    /\ bst.chi = chis[kk + 1]
    /\ \A j \in 0..25 : ~ChiBelow(chis[j + 1], bst.chi)
    /\ \A j \in 0..(kk - 1) : ChiBelow(bst.chi, chis[j + 1])

\* C4: the candidate bestShiftByFrequency returns has a chi-squared value no
\* greater than that of any of the 26 candidates, and it is the first such
\* candidate of the scan k = 0..25 (every earlier candidate is strictly
\* worse); an empty ciphertext gives shift 0 and the empty plaintext.
C4_SelectsFirstMinimum ==
  CsAttacked =>
    /\ FirstMinimum(CandidateChis(cipher), cipher, best)
    /\ cipher = <<>> => (best.shift = 0 /\ best.plain = <<>>)

C4_Witness ==
  /\ CsAttacked
  /\ cipher = <<>> /\ shift = 3 /\ best.shift = 0 /\ best.plain = <<>>
  /\ \A i \in 1..26 : CandidateChis(cipher)[i] = best.chi

\* C8: caesarShift(t, k), k in 0..25, has the length of t, consists of A-Z
\* letters, each the letter of t advanced by k positions modulo 26, and
\* shifting it by (26 - k) % 26 gives t back; "ATTACKATDAWN" with k = 3 gives
\* "DWWDFNDWGDZQ".
C8_ShiftAndBack ==
  (prog = "cesare" /\ pc \notin {"freq_source", "encrypt"}) =>
    /\ Len(cipher) = Len(norm)
    /\ \A i \in 1..Len(norm) :
         /\ cipher[i] \in 65..90
         /\ cipher[i] - 65 = (norm[i] - 65 + shift) % 26
    /\ caesarShift(cipher, (26 - shift) % 26) = norm
    /\ (norm = ATTACKATDAWN /\ shift = 3) => cipher = DWWDFNDWGDZQ

C8_Witness ==
  /\ prog = "cesare" /\ pc = "done"
  /\ norm = ATTACKATDAWN /\ shift = 3 /\ cipher = DWWDFNDWGDZQ
  /\ caesarShift(cipher, 23) = ATTACKATDAWN

FreqOk(fr, t) ==
  /\ DOMAIN fr.counts = LetterSet
  /\ \A L \in LetterSet : fr.counts[L] >= 0 /\ fr.perc[L].den # 0
  /\ SumOver(fr.counts, LetterSet) = Len(t)
  /\ \A L \in LetterSet :
       fr.perc[L].num * Len(t) = fr.counts[L] * 100 * fr.perc[L].den
  /\ Len(t) > 0 =>
       SumOver([L \in LetterSet |-> fr.perc[L].num], LetterSet)
         = 100 * fr.perc[CharA].den
  /\ Len(t) = 0 =>
       \A L \in LetterSet : fr.counts[L] = 0 /\ fr.perc[L].num = 0

CountsOk(f, t) ==
  /\ DOMAIN f = 0..25
  /\ \A i \in 0..25 : f[i] >= 0
  /\ SumOver(f, 0..25) = Len(t)

\* C5: for every A-Z string the frequency analyzer returns one
\* non-negative count per alphabet letter and the counts sum to the length of
\* the string; for a non-empty string each percentage is count * 100 / length
\* and the percentages sum to 100; for the empty string every count and
\* every percentage is zero and no division by zero happens.
C5_CountsAndPercentages ==
  /\ (prog = "cesare" /\ pc # "freq_source") => FreqOk(srcFreq, norm)
  /\ (prog = "cesare" /\ pc \notin {"freq_source", "encrypt", "freq_cipher"})
       => FreqOk(cipFreq, cipher)
  /\ (prog = "rsa_freq" /\ pc \in {"write", "done"}) =>
       /\ CountsOk(rank.srcF, plainAZ)
       /\ CountsOk(rank.cifF, cipherAZ)
       /\ CountsOk(rank.gueF, rank.guessAZ)

C5_Witness ==
  /\ prog = "cesare" /\ pc = "done" /\ norm = <<>>
  /\ srcFreq.n = 1 /\ cipFreq.n = 1
  /\ \A L \in LetterSet : srcFreq.counts[L] = 0 /\ srcFreq.perc[L].num = 0

\* C9: when the normalized input text is empty every entry point ends in the
\* fatal empty-input error before any analysis step runs, and no output file
\* is written.
C9_EmptyInputIsFatal ==
  /\ (prog = "cesare" /\ Len(norm) = 0) =>
       (pc \in {"freq_source", "error"} /\ files = {})
  /\ (prog = "rsa_freq" /\ Len(plainAZ) = 0) =>
       (pc \in {"check_empty", "error"} /\ files = {})
  /\ (prog = "rsa_attack" /\ Len(plaintext) = 0) =>
       (pc \in {"setup", "error"} /\ files = {})

IsPrime(x) == x > 1 /\ \A dd \in 2..(x - 1) : x % dd # 0

RfDecrypted == prog = "rsa_freq" /\ pc \in {"attack", "write", "done"}

\* C1: for every key (p, q, e) the cipher builder accepts, p and q distinct
\* primes and e coprime with phi, and every string over the alphabet,
\* encrypting letter by letter and decrypting with d = e^-1 mod phi returns
\* the original string, with the same length: in the 26-letter variant
\* (residues relabelled to symbols) and in the 27-symbol variant (residues
\* kept as numbers).
C1_RoundTrip ==
  /\ (RfDecrypted /\ IsPrime(keyP) /\ IsPrime(keyQ) /\ keyP # keyQ) =>
       /\ Len(cipherAZ) = Len(plainAZ)
       /\ Len(decrypted.decAZ) = Len(plainAZ)
       /\ decrypted.decAZ = plainAZ
  /\ (prog = "rsa_attack" /\ pc = "done") =>
       /\ Len(cipherNums) = Len(plaintext)
       /\ Len(final.decryptedWithKey) = Len(plaintext)
       /\ final.decryptedWithKey = plaintext

C1_Witness ==
  /\ prog = "rsa_freq" /\ pc = "done"
  /\ keyP = 13 /\ keyQ = 11 /\ keyE = 7
  /\ plainAZ = HELLO /\ cipherAZ # HELLO /\ decrypted.decAZ = HELLO

\* m^e mod n by repeated multiplication, and the residues of the alphabet
RECURSIVE PowMod(_, _, _)
PowMod(m, ee, nn) == IF ee = 0 THEN 1 % nn ELSE (m * PowMod(m, ee - 1, nn)) % nn
Residues(pp, qq, ee) == {PowMod(m, ee, pp * qq) : m \in 0..25}

RfBuilt == prog = "rsa_freq" /\ Len(plainAZ) > 0 /\ pc \notin {"check_empty", "build"}

\* C2: buildPlainToNumMap(p, q, e) fails exactly when the residues
\* m^e mod (p*q), m = 0..25, contain fewer than 26 distinct values; when it
\* returns, the letter -> residue map is injective over the 26 letters and
\* uniq holds those 26 residues in strictly ascending order.
C2_BuilderFailsIffDegenerate ==
  RfBuilt =>
    /\ ~built.ok <=> Cardinality(Residues(keyP, keyQ, keyE)) < 26
    /\ ~built.ok => (pc = "error" /\ files = {})
    /\ built.ok =>
         /\ Len(built.map) = 26 /\ Len(built.uniq) = 26
         /\ \A i \in 1..26 :
              /\ built.map[i][1] = 65 + (i - 1)
              /\ built.map[i][2] = PowMod(i - 1, keyE, keyP * keyQ)
         /\ \A i, j \in 1..26 : i # j => built.map[i][2] # built.map[j][2]
         /\ \A i \in 1..25 : built.uniq[i] < built.uniq[i + 1]
         /\ {built.uniq[i] : i \in 1..26} = Residues(keyP, keyQ, keyE)

C2_Witness ==
  /\ RfBuilt /\ pc = "error" /\ ~built.ok
  /\ Cardinality(Residues(keyP, keyQ, keyE)) < 26

\* the greatest common divisor of two positive integers
GCD(a, b) ==
  CHOOSE g \in 1..a :
    /\ a % g = 0 /\ b % g = 0
    /\ \A h \in (g + 1)..a : ~(a % h = 0 /\ b % h = 0)

InverseOk(ok, dd, ee, ph) ==
  /\ ok <=> GCD(ee, ph) = 1
  /\ ok => (0 <= dd /\ dd < ph /\ (ee * dd) % ph = 1 % ph)

\* C10: for positive e and phi the modular inverse (modInvBig, modInv, and
\* makeSmallRSA which calls it) fails exactly when gcd(e, phi) # 1 and
\* otherwise returns d with 0 <= d < phi and (e * d) mod phi = 1 mod phi; the
\* extended GCD returns (g, x, y) with g = gcd(a, b) and a*x + b*y = g.
C10_ModularInverse ==
  /\ (prog = "arith" /\ pc = "egcdBig") =>
       (res.g = GCD(argA, argB) /\ argA * res.x + argB * res.y = res.g)
  /\ (prog = "arith" /\ pc = "egcd") =>
       (res[3] = GCD(argA, argB) /\ argA * res[1] + argB * res[2] = res[3])
  /\ (prog = "arith" /\ pc = "modInvBig") =>
       InverseOk(res.ok, res.value, argA, argB)
  /\ (prog = "arith" /\ pc = "modInv") =>
       InverseOk(res.ok, res.value, argA, argB)
  /\ (prog = "arith" /\ pc = "makeSmallRSA") =>
       InverseOk(res.ok, res.d, argA, (argP - 1) * (argQ - 1))
  /\ (RfBuilt /\ built.ok /\ pc \notin {"encrypt", "decrypt"}) =>
       /\ InverseOk(decrypted.ok, decrypted.d, keyE, (keyP - 1) * (keyQ - 1))
       /\ ~decrypted.ok => pc = "error"
  /\ (prog = "rsa_attack" /\ pc # "setup") =>
       InverseOk(rsa.ok, rsa.d, rsa.e, rsa.phi)

C10_Witness ==
  /\ RfBuilt /\ built.ok /\ pc = "error"
  /\ ~decrypted.ok /\ GCD(keyE, (keyP - 1) * (keyQ - 1)) # 1

Occurrences(seq, x) == Cardinality({i \in 1..Len(seq) : seq[i] = x})

\* the indices 0..n-1 by descending count (cnt[i + 1] the count of index i),
\* ties by ascending index
RankOrder(cnt, n) ==
  Arr([r \in 1..n |->
         CHOOSE i \in 0..(n - 1) :
           Cardinality({j \in 0..(n - 1) :
                          \/ cnt[j + 1] > cnt[i + 1]
                          \/ (cnt[j + 1] = cnt[i + 1] /\ j < i)}) = r - 1])

RfRankAligned(src, cip) ==
  \A r \in 1..26 :
    MapGet(rank.mapCipherToPlainByRank, 65 + cip[r]) = 65 + src[r]

AtRankAligned(src, cip, expected) ==
  \A r \in 1..27 :
    MapGet(mappingFreq, ToStr(expected[cip[r] + 1])) = ALPHABET[src[r] + 1]

\* C6: the rank-alignment attack orders the reference letters and the cipher
\* symbols by descending frequency, ties by ascending alphabetical symbol
\* index, and maps the cipher symbol of rank i to the reference letter of
\* rank i, in both implementations (orderByFreq with the rank loop, and
\* freqMapping): the mapping depends on the counts only, never on the order
\* in which the letters first occur.
C6_RankAlignment ==
  /\ (prog = "rsa_freq" /\ pc \in {"write", "done"}) =>
       RfRankAligned(
         RankOrder(Arr([i \in 1..26 |-> Occurrences(plainAZ, 64 + i)]), 26),
         RankOrder(Arr([i \in 1..26 |-> Occurrences(cipherAZ, 64 + i)]), 26))
  /\ (prog = "rsa_attack" /\ pc \in {"bigram", "hill_seed"}) =>
       AtRankAligned(
         RankOrder(Arr([i \in 1..27 |-> Occurrences(plaintext, ALPHABET[i])]), 27),
         RankOrder(Arr([i \in 1..27 |->
                          Occurrences(cipherNums, ExpectedSymbols(rsa)[i])]), 27),
         ExpectedSymbols(rsa))

ScoreAtLeast(s1, s2) == s1.pairs = s2.pairs /\ s1.num >= s2.num

\* C7: in hillClimb bestScore never decreases: after every pass of the loop
\* (accepted swap, rejected swap or skipped draw) it is greater than or equal
\* to its value before the pass, and the returned score is greater than or
\* equal to the score of the seed mapping.
C7_ScoreNeverDecreases ==
  [][(prog = "rsa_attack" /\ pc = "hill_loop") =>
       /\ ScoreAtLeast(bestScore', bestScore)
       /\ pc' = "write" => ScoreAtLeast(bestScore', beforeScore)]_vars

C7_Witness ==
  /\ prog = "rsa_attack" /\ pc = "write"
  /\ bestScore.pairs = beforeScore.pairs /\ bestScore.num > beforeScore.num

PwLooping == prog = "pow" /\ pc \in {"modPowBig_loop", "modPow_loop"}
PwReturned == prog = "pow" /\ pc \in {"modPowBig", "modPow"}

\* C11: for base >= 0, exp >= 0 and mod >= 2 the square-and-multiply loop of
\* modPowBig and of modPow terminates (the exponent stays non-negative and
\* strictly decreases with every pass, and the loop returns at 0) and returns
\* exactly (base^exp) mod mod, a value in 0..mod-1; exponent 0 returns 1 and
\* a base that is mod or more gives the result of base mod mod.
C11_ModPowCorrect ==
  [][(prog = "pow") =>
       /\ PwLooping' =>
            /\ loopE' >= 0
            /\ JsRem(loopR' * PowMod(loopB', loopE', powMod), powMod)
                 = PowMod(powBase, powExp, powMod)
       /\ (PwLooping /\ PwLooping') => loopE' < loopE
       /\ PwReturned' =>
            /\ PwLooping /\ loopE = 0
            /\ powRes' = PowMod(powBase, powExp, powMod)
            /\ powRes' >= 0 /\ powRes' < powMod
            /\ powExp = 0 => powRes' = 1
            /\ powRes' = PowMod(powBase % powMod, powExp, powMod)
            /\ modPowBig(powBase, powExp, powMod) = powRes'
            /\ modPow(powBase, powExp, powMod) = powRes']_vars

C11_Witness ==
  /\ PwReturned /\ pc = "modPowBig"
  /\ powBase = 7 /\ powExp = 5 /\ powMod = 5 /\ powRes = 2

AtMapped ==
  prog = "rsa_attack" /\ pc \in {"bigram", "hill_seed", "hill_loop", "write", "done"}

ResiduesDistinct(expected) == Cardinality({expected[i] : i \in 1..27}) = 27

Bijective(mp, expected) ==
  /\ Len(mp) = 27
  /\ {mp[i][1] : i \in 1..Len(mp)} = {expected[i] : i \in 1..27}
  /\ {mp[i][2] : i \in 1..Len(mp)} = AlphabetSet
  /\ \A i, j \in 1..Len(mp) : i # j => (mp[i][1] # mp[j][1] /\ mp[i][2] # mp[j][2])

\* C12: when the 27 cipher residues i^e mod N are pairwise distinct, the
\* candidate mapping is a bijection from the 27 cipher symbols onto the 27
\* alphabet symbols in every state of the attack: as freqMapping returns it,
\* after the seed padding of hillClimb and after every pass of its loop; the
\* set of keys and the set of assigned letters never change.
C12_MappingIsBijection ==
  (AtMapped /\ ResiduesDistinct(ExpectedStrings(rsa))) =>
    Bijective(mappingFreq, ExpectedStrings(rsa))

C12_Witness ==
  /\ prog = "rsa_attack" /\ pc = "hill_loop" /\ it > 0
  /\ ResiduesDistinct(ExpectedStrings(rsa))
  /\ bestScore.num > beforeScore.num
  /\ Bijective(mappingFreq, ExpectedStrings(rsa))

\* the mapping with the letters of the keys a and b exchanged
Exchanged(mp, a, b) ==
  Arr([r \in 1..Len(mp) |->
         IF mp[r][1] = a THEN <<a, MapGet(mp, b)>>
         ELSE IF mp[r][1] = b THEN <<b, MapGet(mp, a)>>
         ELSE mp[r]])

ScoreAbove(s1, s2) == s1.pairs = s2.pairs /\ s1.num > s2.num

\* what one pass of the loop that drew i and j must leave, given the
\* proposal (the exchanged mapping) and its score
PassKeepsOrReverts(proposal, proposalScore) ==
  IF ScoreAbove(proposalScore, bestScore)
  THEN mappingFreq' = proposal /\ bestScore' = proposalScore
  ELSE mappingFreq' = mappingFreq /\ bestScore' = bestScore

\* C13: at the start of every pass of hillClimb and at return, bestScore is
\* scoreMapping of the mapping currently held; a proposed swap is kept only
\* if its score is strictly greater than bestScore, which then becomes that
\* score, and otherwise the mapping is again exactly what it was before.
C13_BestScoreIsScoreOfMapping ==
  [][(prog = "rsa_attack") =>
       /\ pc' \in {"hill_loop", "write"} =>
            bestScore' = scoreMapping(mappingFreq', cipherNums', bigramModel')
       /\ (pc = "hill_loop" /\ pc' = "hill_loop") =>
            IF drawI' = drawJ'
            THEN mappingFreq' = mappingFreq /\ bestScore' = bestScore
            ELSE PassKeepsOrReverts(
                   Exchanged(mappingFreq, syms[drawI' + 1], syms[drawJ' + 1]),
                   scoreMapping(Exchanged(mappingFreq, syms[drawI' + 1], syms[drawJ' + 1]),
                                cipherNums, bigramModel))
       /\ (pc = "hill_loop" /\ pc' = "write") =>
            mappingFreq' = mappingFreq /\ bestScore' = bestScore]_vars

C13_Witness ==
  /\ prog = "rsa_attack" /\ pc = "hill_loop" /\ it = 1 /\ drawI # drawJ
  /\ bestScore = beforeScore
  /\ bestScore = scoreMapping(mappingFreq, cipherNums, bigramModel)
  /\ ScoreAbove(bestScore,
                scoreMapping(Exchanged(mappingFreq, syms[drawI + 1], syms[drawJ + 1]),
                             cipherNums, bigramModel))

\* C14: hillClimb (here on a non-empty text) terminates after exactly
\* `iterations` passes of its loop, with no early stop, and every pass picks two distinct symbols and
\* evaluates their swap (a symbol is never swapped with itself), so exactly
\* `iterations` candidate swaps are proposed.
C14_EveryPassProposesASwap ==
  [][(prog = "rsa_attack" /\ pc = "hill_loop" /\ Len(plaintext) > 0) =>
       /\ pc' = "write" => it = HillIterations
       /\ pc' = "hill_loop" =>
            /\ it' = it + 1 /\ it' <= HillIterations
            /\ drawI' # drawJ']_vars

====
